---- MODULE Spec2Model ----
(***************************************************************************)
(* A model of the file sanitizer of src/main.py: the command line          *)
(* (setup_argparse), main, sanitize_file with its exception handlers, the  *)
(* file system entries it reads and writes, and the regular expression     *)
(* compile / sub calls it makes on the in-memory buffer.                   *)
(*                                                                         *)
(* Text is a sequence of one-character strings.  Offsets into a text are   *)
(* 0-based positions between characters, as in Python's match spans.       *)
(***************************************************************************)
EXTENDS Integers, Sequences, FiniteSets, TLC

VARIABLES
    pc,        \* position in main / sanitize_file
    argv,      \* the invocation: command line or direct call of sanitize_file
    fs,        \* the file system: path -> entry
    fs0,       \* the file system before the run (never changes)
    content,   \* the in-memory buffer of sanitize_file
    idx,       \* index of the next pattern of the for loop
    exc,       \* the exception in flight, or NoExc
    trace,     \* the events of the run, in order (log lines, raises, exit)
    exitcode,  \* the process exit status, or NoExit while running
    last       \* the last pattern application: buffer before it and its matches

vars == <<pc, argv, fs, fs0, content, idx, exc, trace, exitcode, last>>

----------------------------------------------------------------------------
(* Bounds of the model *)

MaxFileLen == 3

MaxPatterns == 2

MaxLen == 4

MaxPatLen == 3

----------------------------------------------------------------------------
(* Texts and pattern strings *)

TextChars == {"a", "b"}

PatChars == {"a", "b", "|", "*", "(", ")", "."}

REDACTED == <<"[", "R", "E", "D", "A", "C", "T", "E", "D", "]">>

SeqsUpTo(S, n) == UNION {[1..k -> S] : k \in 0..n}

\* what the input file of a whole-program run may hold
FileTexts == SeqsUpTo(TextChars, MaxFileLen)

\* the buffers a single pattern is applied to
Texts == SeqsUpTo(TextChars, MaxLen)

\* every pattern string over PatChars, valid or not
AllPatterns == SeqsUpTo(PatChars, MaxPatLen)

\* the patterns of the whole-program runs: two literals, a pattern that only
\* matches inside the redaction marker, and one that does not compile
PatternPool == {<<"b">>, <<"a", "a">>, <<"E">>, <<"(">>}

PatternLists == SeqsUpTo(PatternPool, MaxPatterns)

----------------------------------------------------------------------------
(* re.compile: the pattern string parsed into a tree, or an re.error *)

ParseFail(i) == [ok |-> FALSE, ast |-> [t |-> "eps"], pos |-> i]

RECURSIVE Chain(_)
Chain(items) ==
    IF items = <<>> THEN [t |-> "eps"]
    ELSE [t |-> "cat", l |-> Head(items), r |-> Chain(Tail(items))]

RECURSIVE ParseSub(_, _), ParseSeq(_, _, _), ParseAlts(_, _, _)

\* a sequence of items up to "|", ")" or the end; "*" repeats the last item
ParseSeq(p, i, items) ==
    IF i > Len(p) \/ p[i] \in {"|", ")"}
    THEN [ok |-> TRUE, ast |-> Chain(items), pos |-> i]
    ELSE IF p[i] = "*"
    THEN IF items = <<>> \/ items[Len(items)].t = "star"
         THEN ParseFail(i)   \* nothing to repeat / multiple repeat
         ELSE ParseSeq(p, i + 1,
                  [items EXCEPT ![Len(items)] = [t |-> "star", r |-> @]])
    ELSE IF p[i] = "("
    THEN LET g == ParseSub(p, i + 1) IN
         IF ~g.ok \/ g.pos > Len(p) \/ p[g.pos] # ")"
         THEN ParseFail(g.pos)   \* missing ), unterminated subpattern
         ELSE ParseSeq(p, g.pos + 1, Append(items, [t |-> "grp", r |-> g.ast]))
    ELSE IF p[i] = "."
    THEN ParseSeq(p, i + 1, Append(items, [t |-> "any"]))
    ELSE ParseSeq(p, i + 1, Append(items, [t |-> "lit", c |-> p[i]]))

ParseAlts(p, i, left) ==
    IF i <= Len(p) /\ p[i] = "|"
    THEN LET s == ParseSeq(p, i + 1, <<>>) IN
         IF ~s.ok THEN s
         ELSE ParseAlts(p, s.pos, [t |-> "alt", l |-> left, r |-> s.ast])
    ELSE [ok |-> TRUE, ast |-> left, pos |-> i]

ParseSub(p, i) ==
    LET s == ParseSeq(p, i, <<>>) IN
    IF ~s.ok THEN s ELSE ParseAlts(p, s.pos, s.ast)

\* a ")" left over at the top level is an unbalanced parenthesis
Compile(p) ==
    LET r == ParseSub(p, 1) IN
    IF r.ok /\ r.pos > Len(p) THEN [ok |-> TRUE, ast |-> r.ast]
    ELSE [ok |-> FALSE, ast |-> [t |-> "eps"]]

----------------------------------------------------------------------------
(* Matching: the ends of the matches of r starting at offset i of s, in    *)
(* the order the backtracking engine tries them (first alternative first,  *)
(* greedy repetition).                                                     *)

RECURSIVE Ends(_, _, _), CatEnds(_, _, _), StarEnds(_, _, _, _)

Ends(r, s, i) ==
    CASE r.t = "eps" -> <<i>>
      [] r.t = "lit" -> IF i < Len(s) /\ s[i + 1] = r.c THEN <<i + 1>> ELSE <<>>
      [] r.t = "any" -> IF i < Len(s) THEN <<i + 1>> ELSE <<>>
      [] r.t = "grp" -> Ends(r.r, s, i)
      [] r.t = "alt" -> Ends(r.l, s, i) \o Ends(r.r, s, i)
      [] r.t = "cat" -> CatEnds(r.r, s, Ends(r.l, s, i))
      [] r.t = "star" -> StarEnds(r, s, i, Ends(r.r, s, i)) \o <<i>>

CatEnds(r2, s, es) ==
    IF es = <<>> THEN <<>>
    ELSE Ends(r2, s, Head(es)) \o CatEnds(r2, s, Tail(es))

\* one more iteration is tried only when the last one consumed something
StarEnds(r, s, i, es) ==
    IF es = <<>> THEN <<>>
    ELSE (IF Head(es) # i THEN Ends(r, s, Head(es)) ELSE <<i>>)
         \o StarEnds(r, s, i, Tail(es))

NoMatch == [found |-> FALSE, b |-> 0, e |-> 0]

RECURSIVE FirstEnd(_, _, _)
\* the first end the engine accepts; an empty match is refused when the
\* previous match was empty and ended here (must_advance)
FirstEnd(es, b, refuse_empty) ==
    IF es = <<>> THEN NoMatch
    ELSE IF refuse_empty /\ Head(es) = b THEN FirstEnd(Tail(es), b, refuse_empty)
    ELSE [found |-> TRUE, b |-> b, e |-> Head(es)]

RECURSIVE SearchFrom(_, _, _, _, _)
SearchFrom(r, s, b, start, must_advance) ==
    IF b > Len(s) THEN NoMatch
    ELSE LET m == FirstEnd(Ends(r, s, b), b, must_advance /\ b = start) IN
         IF m.found THEN m ELSE SearchFrom(r, s, b + 1, start, must_advance)

\* the leftmost match starting at or after start
Search(r, s, start, must_advance) == SearchFrom(r, s, start, start, must_advance)

RECURSIVE SubLoopOverlapping(_, _, _, _, _)
\* SubLoop resuming one character after the start of a match instead of at
\* its end, so that matches may overlap
SubLoopOverlapping(r, repl, s, start, must_advance) ==
    LET m == Search(r, s, start, must_advance) IN
    IF ~m.found
    THEN [out |-> SubSeq(s, start + 1, Len(s)), spans |-> <<>>]
    ELSE LET next == IF m.e > m.b THEN m.b + 1 ELSE m.e
             rest == SubLoopOverlapping(r, repl, s, next, m.b = m.e) IN
         [out |-> SubSeq(s, start + 1, m.b) \o repl \o rest.out,
          spans |-> <<[b |-> m.b, e |-> m.e]>> \o rest.spans]

\* SubLoop replacing the first match only, as sub(repl, text, count=1) does
SubLoopFirstOnly(r, repl, s, start, must_advance) ==
    LET m == Search(r, s, start, must_advance) IN
    IF ~m.found
    THEN [out |-> SubSeq(s, start + 1, Len(s)), spans |-> <<>>]
    ELSE [out |-> SubSeq(s, start + 1, m.b) \o repl \o SubSeq(s, m.e + 1, Len(s)),
          spans |-> <<[b |-> m.b, e |-> m.e]>>]

RECURSIVE SubLoop(_, _, _, _, _)
\* the loop of Pattern.sub: copy the text up to the match, put the
\* replacement, resume right after the match
SubLoop(r, repl, s, start, must_advance) ==
    LET m == Search(r, s, start, must_advance) IN
    IF ~m.found
    THEN [out |-> SubSeq(s, start + 1, Len(s)), spans |-> <<>>]
    ELSE LET rest == SubLoop(r, repl, s, m.e, m.b = m.e) IN
         [out |-> SubSeq(s, start + 1, m.b) \o repl \o rest.out,
          spans |-> <<[b |-> m.b, e |-> m.e]>> \o rest.spans]

Sub(r, repl, s) == SubLoop(r, repl, s, 0, FALSE)

Replacement(redact) == IF redact THEN REDACTED ELSE <<>>

----------------------------------------------------------------------------
(* The file system *)

Paths == {"f1", "f2"}

\* absent:   no entry, the parent directory exists
\* noparent: no entry, and no parent directory either
\* dir:      a directory
\* file:     a regular file holding UTF-8 text
\* binary:   a regular file whose bytes are not valid UTF-8
\* locked:   a regular file the process may neither read nor write
Kinds == {"absent", "noparent", "dir", "file", "binary", "locked"}

FileKinds == {"file", "binary", "locked"}

\* what the output path holds before the run, when it is a file
OldContent == <<"b", "a">>

Entry(k, c) == [kind |-> k, content |-> IF k \in FileKinds THEN c ELSE <<>>]

\* pathlib.Path.exists
Exists(path) == fs[path].kind \notin {"absent", "noparent"}

\* pathlib.Path.is_file
IsFile(path) == fs[path].kind \in FileKinds

----------------------------------------------------------------------------
(* Exceptions, events, exit status *)

NoExc == [class |-> "none", site |-> "none", clause |-> "none"]

Raise(class, site) == [class |-> class, site |-> site, clause |-> "none"]

NoExit == -1

NoLast == [applied |-> FALSE, before |-> <<>>, spans |-> <<>>, pattern |-> <<>>]

Log(level, by) == [ev |-> "log", level |-> level, by |-> by]

Event(ev, by) == [ev |-> ev, level |-> "-", by |-> by]

\* the except clause of sanitize_file that catches an exception of the class
ExceptClause(class) ==
    CASE class = "FileNotFoundError" -> "FileNotFoundError"
      [] class = "PermissionError" -> "PermissionError"
      [] class \in {"IsADirectoryError", "OSError"} -> "OSError"
      [] OTHER -> "Exception"

\* the class raised for a path that is not a regular file, and for a
\* pattern that does not compile
InvalidInputClass == "ValueError"

InvalidPatternClass == "ValueError"

----------------------------------------------------------------------------
(* The invocations *)

\* a command line: parse is what argparse makes of it
Cli(parse, has, pats, redact, out) ==
    [entry |-> "cli", parse |-> parse, input_file |-> "f1", output_file |-> out,
     has_patterns |-> has, patterns |-> pats, redact |-> redact]

\* a direct call sanitize_file(input_file, output_file, patterns, redact)
Call(pats, redact, out) ==
    [entry |-> "call", parse |-> "ok", input_file |-> "f1", output_file |-> out,
     has_patterns |-> TRUE, patterns |-> pats, redact |-> redact]

\* --patterns takes one or more values (nargs="+") and may be left out, which
\* leaves args.patterns None; the empty list is only reachable by a direct call
Invocations ==
    {Cli("ok", TRUE, ps, r, o) :
        ps \in PatternLists \ {<<>>}, r \in BOOLEAN, o \in Paths}
    \cup {Cli("ok", FALSE, <<>>, r, o) : r \in BOOLEAN, o \in Paths}
    \cup {Cli(x, FALSE, <<>>, FALSE, "f2") : x \in {"usage", "help"}}
    \cup {Call(<<>>, r, o) : r \in BOOLEAN, o \in Paths}

FileSystems ==
    {[p \in Paths |-> IF p = "f1" THEN Entry(k1, t) ELSE Entry(k2, OldContent)] :
        k1 \in Kinds, k2 \in Kinds, t \in FileTexts}

Init ==
    /\ argv \in Invocations
    /\ fs \in FileSystems
    \* what the other path holds does not matter when both names are one path
    /\ argv.output_file = argv.input_file => fs["f2"].kind = "absent"
    /\ argv.parse # "ok" => fs["f1"].kind = "file" /\ fs["f2"].kind = "absent"
    /\ fs0 = fs
    /\ pc = IF argv.entry = "cli" THEN "main" ELSE "exists"
    /\ content = <<>>
    /\ idx = 1
    /\ exc = NoExc
    /\ trace = <<>>
    /\ exitcode = NoExit
    /\ last = NoLast

----------------------------------------------------------------------------
(* main and setup_argparse *)

\* parser.parse_args(): a usage error ends the process with status 2; -h
\* prints the help and ends it with status 0, or, where formatting the help
\* text of --patterns fails on its "%", with an uncaught ValueError, status 1
ParseArgs ==
    /\ pc = "main"
    /\ \/ /\ argv.parse = "ok"
          /\ pc' = "setlevel"
          /\ UNCHANGED <<exitcode, trace>>
       \/ /\ argv.parse = "usage"
          /\ pc' = "done"
          /\ exitcode' = 2
          /\ trace' = Append(trace, Event("exit", "argparse"))
       \/ /\ argv.parse = "help"
          /\ pc' = "done"
          /\ exitcode' \in {0, 1}
          /\ trace' = Append(trace, Event("exit", "argparse"))
    /\ UNCHANGED <<argv, fs, fs0, content, idx, exc, last>>

\* logging.getLogger().setLevel(args.log_level): the level is one of the
\* choices argparse accepted
SetLogLevel ==
    /\ pc = "setlevel"
    /\ pc' = "exists"
    /\ UNCHANGED <<argv, fs, fs0, content, idx, exc, trace, exitcode, last>>

----------------------------------------------------------------------------
(* sanitize_file *)

Throw(class, site) ==
    /\ exc' = Raise(class, site)
    /\ trace' = Append(trace, Event("raise", site))
    /\ pc' = "handler"

CheckExists ==
    /\ pc = "exists"
    /\ IF Exists(argv.input_file)
       THEN pc' = "is_file" /\ UNCHANGED <<exc, trace>>
       ELSE Throw("FileNotFoundError", "exists")
    /\ UNCHANGED <<argv, fs, fs0, content, idx, exitcode, last>>

CheckIsFile ==
    /\ pc = "is_file"
    /\ IF IsFile(argv.input_file)
       THEN pc' = "read" /\ UNCHANGED <<exc, trace>>
       ELSE Throw(InvalidInputClass, "is_file")
    /\ UNCHANGED <<argv, fs, fs0, content, idx, exitcode, last>>

\* open(input_file, "r", encoding="utf-8") and f_in.read()
ReadInput ==
    /\ pc = "read"
    /\ LET k == fs[argv.input_file].kind IN
       CASE k = "locked" ->
              Throw("PermissionError", "read") /\ UNCHANGED content
         [] k = "binary" ->
              Throw("UnicodeDecodeError", "read") /\ UNCHANGED content
         [] OTHER ->
              /\ content' = fs[argv.input_file].content
              /\ pc' = "loop"
              /\ UNCHANGED <<exc, trace>>
    /\ UNCHANGED <<argv, fs, fs0, idx, exitcode, last>>

\* for pattern in patterns, when patterns is None
IterateNone ==
    /\ pc = "loop"
    /\ ~argv.has_patterns
    /\ Throw("TypeError", "loop")
    /\ UNCHANGED <<argv, fs, fs0, content, idx, exitcode, last>>

\* ApplyPattern substituting in the text as read instead of in the buffer
ApplyPatternOnOriginal ==
    /\ pc = "loop"
    /\ argv.has_patterns
    /\ idx <= Len(argv.patterns)
    /\ LET c == Compile(argv.patterns[idx])
           original == fs0[argv.input_file].content IN
       IF c.ok
       THEN LET res == Sub(c.ast, Replacement(argv.redact), original) IN
            /\ content' = res.out
            /\ last' = [applied |-> TRUE, before |-> original,
                        spans |-> res.spans, pattern |-> argv.patterns[idx]]
            /\ idx' = idx + 1
            /\ trace' = Append(trace, Log("DEBUG", "sanitize_file"))
            /\ UNCHANGED <<pc, exc>>
       ELSE /\ exc' = Raise(InvalidPatternClass, "compile")
            /\ trace' = trace \o <<Event("raise", "compile"),
                                   Log("ERROR", "sanitize_file"),
                                   Event("raise", "compile")>>
            /\ pc' = "handler"
            /\ UNCHANGED <<content, idx, last>>
    /\ UNCHANGED <<argv, fs, fs0, exitcode>>

\* ApplyPattern writing the buffer to the output file after each pattern
ApplyPatternStreaming ==
    /\ pc = "loop"
    /\ argv.has_patterns
    /\ idx <= Len(argv.patterns)
    /\ LET c == Compile(argv.patterns[idx]) IN
       IF c.ok
       THEN LET res == Sub(c.ast, Replacement(argv.redact), content) IN
            /\ content' = res.out
            /\ last' = [applied |-> TRUE, before |-> content,
                        spans |-> res.spans, pattern |-> argv.patterns[idx]]
            /\ idx' = idx + 1
            /\ trace' = Append(trace, Log("DEBUG", "sanitize_file"))
            /\ fs' = IF fs[argv.output_file].kind \in {"absent", "file", "binary"}
                     THEN [fs EXCEPT ![argv.output_file] = Entry("file", res.out)]
                     ELSE fs
            /\ UNCHANGED <<pc, exc>>
       ELSE /\ exc' = Raise(InvalidPatternClass, "compile")
            /\ trace' = trace \o <<Event("raise", "compile"),
                                   Log("ERROR", "sanitize_file"),
                                   Event("raise", "compile")>>
            /\ pc' = "handler"
            /\ UNCHANGED <<content, idx, last, fs>>
    /\ UNCHANGED <<argv, fs0, exitcode>>

\* one turn of the loop: compile the pattern, substitute in the buffer; an
\* re.error is logged and raised again as a ValueError
ApplyPattern ==
    /\ pc = "loop"
    /\ argv.has_patterns
    /\ idx <= Len(argv.patterns)
    /\ LET c == Compile(argv.patterns[idx]) IN
       IF c.ok
       THEN LET res == Sub(c.ast, Replacement(argv.redact), content) IN
            /\ content' = res.out
            /\ last' = [applied |-> TRUE, before |-> content,
                        spans |-> res.spans, pattern |-> argv.patterns[idx]]
            /\ idx' = idx + 1
            /\ trace' = Append(trace, Log("DEBUG", "sanitize_file"))
            /\ UNCHANGED <<pc, exc>>
       ELSE /\ exc' = Raise(InvalidPatternClass, "compile")
            /\ trace' = trace \o <<Event("raise", "compile"),
                                   Log("ERROR", "sanitize_file"),
                                   Event("raise", "compile")>>
            /\ pc' = "handler"
            /\ UNCHANGED <<content, idx, last>>
    /\ UNCHANGED <<argv, fs, fs0, exitcode>>

LoopDone == pc = "loop" /\ argv.has_patterns /\ idx > Len(argv.patterns)

\* open(output_file, "w", encoding="utf-8") and f_out.write(content)
WriteOutput ==
    /\ LoopDone
    /\ LET k == fs[argv.output_file].kind IN
       CASE k = "noparent" ->
              Throw("FileNotFoundError", "write") /\ UNCHANGED fs
         [] k = "dir" ->
              Throw("IsADirectoryError", "write") /\ UNCHANGED fs
         [] k = "locked" ->
              Throw("PermissionError", "write") /\ UNCHANGED fs
         [] OTHER ->
              /\ fs' = [fs EXCEPT ![argv.output_file] = Entry("file", content)]
              /\ trace' = Append(trace, Log("INFO", "sanitize_file"))
              /\ pc' = "returned"
              /\ UNCHANGED exc
    /\ UNCHANGED <<argv, fs0, content, idx, exitcode, last>>

\* the file is opened (created or truncated) and the write then fails, as on
\* a full disk: some prefix of the buffer is left in the file
WriteFails ==
    /\ LoopDone
    /\ fs[argv.output_file].kind \in {"absent", "file", "binary"}
    /\ \E n \in 0..Len(content) :
          fs' = [fs EXCEPT ![argv.output_file] =
                               Entry("file", SubSeq(content, 1, n))]
    /\ Throw("OSError", "write")
    /\ UNCHANGED <<argv, fs0, content, idx, exitcode, last>>

\* Handler logging the error and returning instead of raising it again
HandlerSwallows ==
    /\ pc = "handler"
    /\ exc' = [exc EXCEPT !.clause = ExceptClause(exc.class)]
    /\ trace' = Append(trace, Log("ERROR", "sanitize_file"))
    /\ pc' = "returned"
    /\ UNCHANGED <<argv, fs, fs0, content, idx, exitcode, last>>

\* the except clauses of sanitize_file: log at ERROR, raise again
Handler ==
    /\ pc = "handler"
    /\ exc' = [exc EXCEPT !.clause = ExceptClause(exc.class)]
    /\ trace' = trace \o <<Log("ERROR", "sanitize_file"),
                           Event("reraise", "sanitize_file")>>
    /\ pc' = IF argv.entry = "cli" THEN "main_except" ELSE "done"
    /\ UNCHANGED <<argv, fs, fs0, content, idx, exitcode, last>>

\* MainExcept logging the failure without calling exit(1)
MainExceptNoExit ==
    /\ pc = "main_except"
    /\ trace' = Append(trace, Log("ERROR", "main"))
    /\ exitcode' = 0
    /\ pc' = "done"
    /\ UNCHANGED <<argv, fs, fs0, content, idx, exc, last>>

\* except Exception in main: log, exit(1)
MainExcept ==
    /\ pc = "main_except"
    /\ trace' = trace \o <<Log("ERROR", "main"), Event("exit", "main")>>
    /\ exitcode' = 1
    /\ pc' = "done"
    /\ UNCHANGED <<argv, fs, fs0, content, idx, exc, last>>

\* sanitize_file returns; main falls off its end and the process ends
Return ==
    /\ pc = "returned"
    /\ pc' = "done"
    /\ exitcode' = IF argv.entry = "cli" THEN 0 ELSE NoExit
    /\ UNCHANGED <<argv, fs, fs0, content, idx, exc, trace, last>>

Next ==
    \/ ParseArgs
    \/ SetLogLevel
    \/ CheckExists
    \/ CheckIsFile
    \/ ReadInput
    \/ IterateNone
    \/ ApplyPattern
    \/ WriteOutput
    \/ WriteFails
    \/ Handler
    \/ MainExcept
    \/ Return

Spec == Init /\ [][Next]_vars

----------------------------------------------------------------------------
(* One pattern applied to one buffer: sanitize_file from the state it is   *)
(* in after reading the text t of a readable file, with the single pattern *)
(* p, drawn from every pattern string, and an output path that is free.    *)

InitSub ==
    /\ \E p \in AllPatterns, r \in BOOLEAN :
          argv = Cli("ok", TRUE, <<p>>, r, "f2")
    /\ \E t \in Texts :
          /\ fs = [q \in Paths |-> IF q = "f1" THEN Entry("file", t)
                                   ELSE Entry("absent", <<>>)]
          /\ content = t
    /\ fs0 = fs
    /\ pc = "loop"
    /\ idx = 1
    /\ exc = NoExc
    /\ trace = <<>>
    /\ exitcode = NoExit
    /\ last = NoLast

NextSub ==
    \/ ApplyPattern
    \/ WriteOutput
    \/ Handler
    \/ MainExcept
    \/ Return

SpecSub == InitSub /\ [][NextSub]_vars


----------------------------------------------------------------------------
(* Helpers of the properties *)

InputText == fs0[argv.input_file].content

Succeeded == pc = "done" /\ argv.parse = "ok" /\ exc = NoExc

Failed == exc # NoExc

Compiles(p) == Compile(p).ok

Range(f) == {f[i] : i \in DOMAIN f}

\* the patterns applied one after the other, each to the result of the one before
RECURSIVE ApplyAll(_, _, _)
ApplyAll(ps, redact, text) ==
    IF ps = <<>> THEN text
    ELSE ApplyAll(Tail(ps), redact,
                  Sub(Compile(Head(ps)).ast, Replacement(redact), text).out)

\* whether r has a match in s at all
HasMatch(r, s) == \E q \in 0..Len(s) : Ends(r, s, q) # <<>>

SpanLen(sp, k) == sp[k].e - sp[k].b

RECURSIVE SumLen(_, _)
\* the total length of the first n spans
SumLen(sp, n) == IF n = 0 THEN 0 ELSE SumLen(sp, n - 1) + SpanLen(sp, n)

\* the spans that end before character q of the buffer (q is 1-based)
EndedBefore(sp, q) == {k \in DOMAIN sp : sp[k].e < q}

\* character q of the buffer lies inside a match
Inside(sp, q) == \E k \in DOMAIN sp : sp[k].b < q /\ q <= sp[k].e

----------------------------------------------------------------------------
(* C1: a successful run writes sub(pn, ... sub(p1, T)): the patterns are   *)
(* applied in the order given, each to the buffer the previous one left,   *)
(* not to the original text.                                               *)
C1_AppliedInOrder ==
    /\ (pc = "loop" /\ argv.has_patterns) =>
          content = ApplyAll(SubSeq(argv.patterns, 1, idx - 1), argv.redact, InputText)
    /\ Succeeded =>
          fs[argv.output_file].content =
              ApplyAll(argv.patterns, argv.redact, InputText)

\* a successful run whose second pattern has no match in the original text
\* and matched in the buffer the first pattern left
C1_Witness ==
    /\ Succeeded
    /\ Len(argv.patterns) = 2
    /\ ~HasMatch(Compile(argv.patterns[2]).ast, InputText)
    /\ last.spans # <<>>
    /\ fs[argv.output_file].content # InputText

(* C2: when sanitize_file fails before the write step (missing input, not  *)
(* a file, read failure, a pattern that does not compile, also after valid *)
(* ones were applied), the output path is as it was before the call.       *)
C2_NoOutputBeforeWrite ==
    (Failed /\ exc.site # "write") =>
        fs[argv.output_file] = fs0[argv.output_file]

\* a run that ended on a pattern that does not compile after another
\* pattern had changed the buffer, with an output file that existed
C2_Witness ==
    /\ pc = "done"
    /\ exc.site = "compile"
    /\ idx = 2
    /\ last.spans # <<>>
    /\ argv.output_file # argv.input_file
    /\ fs0[argv.output_file].kind = "file"

(* C3: the input file is never changed by a run, whatever the paths,       *)
(* also when the output path names the input file.                         *)
C3_InputNeverMutated == fs[argv.input_file] = fs0[argv.input_file]

(* C4, as stated: in deletion mode, after a successful run with the single *)
(* pattern p, the output holds no non-empty substring that matches p.      *)
C4_NoMatchLeft ==
    (Succeeded /\ ~argv.redact /\ Len(argv.patterns) = 1) =>
        LET r == Compile(argv.patterns[1]).ast
            out == fs[argv.output_file].content IN
        \A j \in 0..Len(out) : \A k \in Range(Ends(r, out, j)) : k = j

\* the offsets of the output at which a non-empty match was deleted
Joins(sp) == {sp[k].b - SumLen(sp, k - 1) : k \in {n \in DOMAIN sp : sp[n].e > sp[n].b}}

(* C4, amended: in deletion mode every non-empty match of p in the output  *)
(* spans a place where a match was deleted: it is made of text from both   *)
(* sides of a deletion, and no match found by the scan survives.           *)
C4_MatchesOnlyAcrossJoins ==
    (last.applied /\ ~argv.redact) =>
        LET r == Compile(last.pattern).ast IN
        \A j \in 0..Len(content) : \A k \in Range(Ends(r, content, j)) :
            k > j => \E q \in Joins(last.spans) : j < q /\ q < k

\* a successful deletion run whose output still matches the pattern
C4_Witness ==
    /\ Succeeded /\ ~argv.redact /\ Len(argv.patterns) = 1
    /\ last.spans # <<>>
    /\ LET r == Compile(argv.patterns[1]).ast
           out == fs[argv.output_file].content IN
       \E j \in 0..Len(out) : \E k \in Range(Ends(r, out, j)) : k > j

(* C5: applying p to the buffer B replaces every leftmost non-overlapping  *)
(* match of p by exactly the replacement ([REDACTED], or nothing without   *)
(* redact), one per match, and keeps every character outside the matches,  *)
(* in order.                                                               *)
C5_LeftmostNonOverlapping ==
    last.applied =>
        LET B == last.before
            sp == last.spans
            r == Compile(last.pattern).ast
            repl == Replacement(argv.redact)
            n == Len(sp)
            \* where character q of B, outside the matches, lands
            NewIndex(q) == q - SumLen(sp, Cardinality(EndedBefore(sp, q)))
                             + Len(repl) * Cardinality(EndedBefore(sp, q))
            \* the offset at which the replacement of match k starts
            NewOffset(k) == sp[k].b - SumLen(sp, k - 1) + Len(repl) * (k - 1)
        IN
        \* every span is a match of p
        /\ \A k \in 1..n : sp[k].e \in Range(Ends(r, B, sp[k].b))
        \* in order, not overlapping; an empty match is not taken twice
        /\ \A k \in 1..(n - 1) :
              /\ sp[k].e <= sp[k + 1].b
              /\ sp[k] # sp[k + 1]
              /\ (SpanLen(sp, k) = 0 /\ sp[k + 1].b = sp[k].b) => SpanLen(sp, k + 1) > 0
        \* leftmost: a place where p matches starts a span or is inside one
        /\ \A q \in 0..Len(B) :
              Ends(r, B, q) # <<>> =>
                  \E k \in 1..n : sp[k].b = q \/ (sp[k].b < q /\ q < sp[k].e)
        \* each match is consumed once and replaced by exactly the replacement
        /\ Len(content) = Len(B) - SumLen(sp, n) + n * Len(repl)
        /\ \A k \in 1..n :
              SubSeq(content, NewOffset(k) + 1, NewOffset(k) + Len(repl)) = repl
        \* the characters outside the matches are kept, in order
        /\ \A q \in 1..Len(B) : ~Inside(sp, q) => content[NewIndex(q)] = B[q]

\* a redaction with two matches and text kept before, between and after them
C5_Witness ==
    /\ last.applied /\ argv.redact
    /\ Len(last.spans) = 2
    /\ last.spans[1].b > 0
    /\ last.spans[1].e < last.spans[2].b
    /\ last.spans[2].e > last.spans[2].b
    /\ content # last.before

NoPatterns == ~argv.has_patterns \/ argv.patterns = <<>>

(* C6: with zero patterns (an empty list, or no --patterns option) and a   *)
(* readable input file the run succeeds and the output equals the input.   *)
C6_ZeroPatternsPassThrough ==
    (/\ pc = "done" /\ argv.parse = "ok" /\ NoPatterns
     /\ fs0[argv.input_file].kind = "file"
     /\ exc.site # "write") =>
        /\ exc = NoExc
        /\ fs[argv.output_file] = Entry("file", InputText)
        /\ argv.entry = "cli" => exitcode = 0

SanitizeSucceeded == argv.parse = "ok" /\ exc = NoExc

(* C7, as stated: a run ends with exit code 0 when sanitization succeeded  *)
(* and with 1 when any error occurred in setup or sanitization.            *)
C7_ExitZeroOrOne ==
    (pc = "done" /\ argv.entry = "cli") =>
        /\ SanitizeSucceeded => exitcode = 0
        /\ (Failed \/ argv.parse = "usage") => exitcode = 1

(* C7, amended: the exit code is 0 when sanitization succeeded, 1 when     *)
(* sanitize_file raised, 2 when argparse rejected the command line; a run  *)
(* that ends with 0 succeeded or only printed the help.                    *)
C7_ExitCodes ==
    (pc = "done" /\ argv.entry = "cli") =>
        /\ exitcode \in {0, 1, 2}
        /\ SanitizeSucceeded => exitcode = 0
        /\ Failed => exitcode = 1
        /\ argv.parse = "usage" => exitcode = 2
        /\ exitcode = 0 => SanitizeSucceeded \/ argv.parse = "help"
        /\ exitcode = 2 => argv.parse = "usage"

\* a run that ended on a usage error
C7_Witness == pc = "done" /\ argv.parse = "usage" /\ exitcode = 2

SomePatternInvalid ==
    argv.has_patterns /\ \E i \in DOMAIN argv.patterns : ~Compiles(argv.patterns[i])

(* C8: the preconditions are checked in the order exists, is a file, every *)
(* pattern compiles, before the file is read, each with an error kind of   *)
(* its own: the earliest violated one is the one reported.                 *)
C8_PreconditionsInOrder ==
    (Failed /\ argv.parse = "ok") =>
        LET k == fs0[argv.input_file].kind IN
        /\ k \in {"absent", "noparent"} =>
              exc.site = "exists" /\ exc.class = "FileNotFoundError"
        /\ k = "dir" =>
              exc.site = "is_file" /\ exc.class # InvalidPatternClass
        /\ (k \in FileKinds /\ SomePatternInvalid) =>
              /\ exc.site = "compile"
              /\ exc.class # InvalidInputClass
              /\ ~last.applied

(* C9: a failure while reading the input or writing the output is caught   *)
(* as an I/O error: by the PermissionError or the OSError clause, not by   *)
(* the FileNotFoundError clause and not by the catch-all.                  *)
C9_IoFailuresAreIoErrors ==
    (exc.clause # "none" /\ exc.site \in {"read", "write"}) =>
        exc.clause \in {"PermissionError", "OSError"}

ErrorLog == Log("ERROR", "sanitize_file")

(* C10: an error raised in sanitize_file is logged there at ERROR, raised  *)
(* again to main, which logs the failure and exits non-zero; a failed run  *)
(* never reaches the success line or a normal return, and nothing is       *)
(* retried after the error.                                                *)
C10_LoggedReraisedExit ==
    (Failed /\ argv.entry = "cli") =>
        LET n == Len(trace)
            first == CHOOSE i \in 1..n :
                        /\ trace[i].ev = "raise"
                        /\ \A j \in 1..(i - 1) : trace[j].ev # "raise"
        IN
        /\ pc \in {"handler", "main_except", "done"}
        /\ exitcode \in {NoExit, 1}
        /\ Log("INFO", "sanitize_file") \notin Range(trace)
        \* after the raise: only error logs, the re-raise and the exit
        /\ \A i \in (first + 1)..n :
              trace[i] \in {ErrorLog, Event("raise", "compile"),
                            Event("reraise", "sanitize_file"),
                            Log("ERROR", "main"), Event("exit", "main")}
        /\ pc = "main_except" =>
              /\ n >= 3
              /\ trace[n - 1] = ErrorLog
              /\ trace[n] = Event("reraise", "sanitize_file")
        /\ pc = "done" =>
              /\ n >= 5
              /\ trace[n - 3] = ErrorLog
              /\ trace[n - 2] = Event("reraise", "sanitize_file")
              /\ trace[n - 1] = Log("ERROR", "main")
              /\ trace[n] = Event("exit", "main")
              /\ exitcode = 1

\* a command-line run that failed on a pattern and has ended
C10_Witness ==
    /\ pc = "done" /\ argv.entry = "cli"
    /\ exc.site = "compile"
    /\ exitcode = 1

====
